---- MODULE Spec2Model ----
(***************************************************************************)
(* The booking lifecycle and product catalogue of the Global IT Zone       *)
(* backend: the Express handlers of the bookings and products routers and  *)
(* the Mongoose models Booking and Product, as a state machine over the    *)
(* document store.  Every `await` on the store is a step of its own, so    *)
(* that requests interleave exactly where the event loop lets them.        *)
(***************************************************************************)
EXTENDS Integers, Sequences, FiniteSets, TLC

(***************************************************************************)
(* Bounds of the model.                                                    *)
(***************************************************************************)
NumReqs == 2
MaxProducts == 1
MaxBookings == 2
MaxLifecycleBookings == 1
MaxTicks == 1
MaxViews == 2
MaxFaults == 1
StartTime == 35

(***************************************************************************)
(* JavaScript values of a request body: undefined, a string (a sequence    *)
(* of one-character strings) or a number.                                  *)
(***************************************************************************)
JsUndef == [t |-> "undefined", s |-> <<>>, n |-> 0]

JsStr(str) == [t |-> "string", s |-> str, n |-> 0]

JsNum(num) == [t |-> "number", s |-> <<>>, n |-> num]

\* !v : undefined, the empty string and 0 are falsy.
Falsy(v) ==
    \/ v.t = "undefined"
    \/ v.t = "string" /\ v.s = <<>>
    \/ v.t = "number" /\ v.n = 0

\* v || d
OrElse(v, d) == IF Falsy(v) THEN d ELSE v

LowerChars ==
    <<"a","b","c","d","e","f","g","h","i","j","k","l","m",
      "n","o","p","q","r","s","t","u","v","w","x","y","z">>

UpperChars ==
    <<"A","B","C","D","E","F","G","H","I","J","K","L","M",
      "N","O","P","Q","R","S","T","U","V","W","X","Y","Z">>

Digits36 == <<"0","1","2","3","4","5","6","7","8","9">> \o LowerChars

\* Number.prototype.toString(36) of a non-negative integer.
RECURSIVE ToString36(_)
ToString36(num) ==
    IF num < Len(Digits36)
    THEN <<Digits36[num + 1]>>
    ELSE ToString36(num \div Len(Digits36)) \o <<Digits36[(num % Len(Digits36)) + 1]>>

\* The upper-case letter of each lower-case letter.
UpperOf == [c \in {LowerChars[i] : i \in 1..Len(LowerChars)} |->
              UpperChars[CHOOSE i \in 1..Len(LowerChars) : LowerChars[i] = c]]

ToUpperChar(c) == IF c \in DOMAIN UpperOf THEN UpperOf[c] ELSE c

\* String.prototype.toUpperCase, also the schema option `uppercase: true`.
toUpperCase(str) == [i \in 1..Len(str) |-> ToUpperChar(str[i])]

\* String.prototype.trim, the schema option `trim: true`.
RECURSIVE TrimLeft(_)
TrimLeft(str) ==
    IF str # <<>> /\ Head(str) = " " THEN TrimLeft(Tail(str)) ELSE str

RECURSIVE TrimRight(_)
TrimRight(str) ==
    IF str # <<>> /\ str[Len(str)] = " "
    THEN TrimRight(SubSeq(str, 1, Len(str) - 1))
    ELSE str

Trim(str) == TrimRight(TrimLeft(str))

(***************************************************************************)
(* The coupon code generator.                                              *)
(***************************************************************************)
\* Math.random().toString(36).substring(2, 6): up to four base-36 digits.
RandomSuffixes == { <<"k","3","x","9">>, <<"i">> }

generateCouponCode(timestamp, random) ==
    <<"G","I","T">> \o <<"-">> \o toUpperCase(ToString36(timestamp))
        \o <<"-">> \o toUpperCase(random)

(***************************************************************************)
(* Identities, supplied per request by the authentication middleware.      *)
(***************************************************************************)
Users == {"u1", "u2", "adm"}

Role(u) == IF u = "adm" THEN "admin" ELSE "user"

None == <<>>

Some(x) == <<x>>

(***************************************************************************)
(* Products.                                                               *)
(***************************************************************************)
Availabilities == {"Available", "Out of Stock", "Discontinued"}

\* An uploaded file: file.path is the image URL, file.filename its public id.
FileA == [path |-> <<"a",".","j">>, filename |-> <<"i","d","a">>]

FileB == [path |-> <<"b",".","j">>, filename |-> <<"i","d","b">>]

FileC == [path |-> <<"c",".","j">>, filename |-> <<"i","d","c">>]

Files == {FileA, FileB, FileC}

\* The public ids by which image storage knows the files.
Handles == { f.filename : f \in Files }

\* The lists of files a product request uploads.
FileLists == { <<FileA>>, <<FileA, FileB>> }

\* The files a product update adds.
UpdateFileLists == { <<>>, <<FileC>> }

\* name and category of the products the admin enters.
CatalogEntries ==
    { [name |-> <<"T","h","i","n","k">>, category |-> <<"L","a","p","t","o","p","s">>],
      [name |-> <<"H","u","b">>, category |-> <<"N","e","t","w","o","r","k","i","n","g">>] }

\* new Product({...}) with the schema defaults of isActive, views and likes.
NewProduct(entry, availability, files, user) ==
    [ name |-> entry.name,
      category |-> entry.category,
      availability |-> availability,
      images |-> [i \in 1..Len(files) |-> files[i].path],
      imagePublicIds |-> [i \in 1..Len(files) |-> files[i].filename],
      stock |-> 1,
      isActive |-> TRUE,
      views |-> 0,
      likes |-> 0,
      createdBy |-> user ]

(***************************************************************************)
(* Bookings.                                                               *)
(***************************************************************************)
\* The body of a request; a field the client leaves out is undefined.
EmptyBody ==
    [ productId |-> JsUndef, productName |-> JsUndef, productImage |-> JsUndef,
      productCategory |-> JsUndef, customerName |-> JsUndef,
      customerPhone |-> JsUndef, customerAddress |-> JsUndef,
      quantity |-> JsUndef, bookingDate |-> JsUndef, actualPrice |-> JsUndef,
      strikePrice |-> JsUndef, sellingPrice |-> JsUndef, totalAmount |-> JsUndef,
      discountPercentage |-> JsUndef, reason |-> JsUndef ]

\* The route's presence check of the required fields.
MissingRequiredField(body) ==
    \/ Falsy(body.productId)
    \/ Falsy(body.customerName)
    \/ Falsy(body.customerPhone)
    \/ Falsy(body.customerAddress)
    \/ Falsy(body.quantity)
    \/ Falsy(body.bookingDate)

\* The document Booking.create builds from the handler's argument: the schema
\* setters (trim, uppercase) and defaults (couponCode, orderDate) applied.
NewBooking(body, user, clock, random) ==
    [ productId |-> body.productId.n,
      productName |-> body.productName,
      productImage |-> body.productImage,
      productCategory |-> body.productCategory,
      userId |-> user,
      customerName |-> JsStr(Trim(body.customerName.s)),
      customerPhone |-> JsStr(Trim(body.customerPhone.s)),
      customerAddress |-> JsStr(Trim(body.customerAddress.s)),
      quantity |-> body.quantity,
      bookingDate |-> body.bookingDate,
      orderDate |-> clock,
      actualPrice |-> OrElse(body.actualPrice, JsNum(0)),
      strikePrice |-> OrElse(body.strikePrice, JsNum(0)),
      sellingPrice |-> OrElse(body.sellingPrice, JsNum(0)),
      totalAmount |-> OrElse(body.totalAmount, JsNum(0)),
      discountPercentage |-> OrElse(body.discountPercentage, JsNum(0)),
      couponCode |-> toUpperCase(generateCouponCode(clock, random)),
      status |-> "confirmed",
      cancelledAt |-> None,
      cancellationReason |-> None,
      completedAt |-> None ]

\* `required: true` of a String path: undefined and the empty string fail.
RequiredString(v) == v.t = "string" /\ v.s # <<>>

\* The schema validation Mongoose runs before the insert.
ValidBooking(doc) ==
    /\ RequiredString(doc.productName)
    /\ RequiredString(doc.productImage)
    /\ RequiredString(doc.productCategory)
    /\ RequiredString(doc.customerName)
    /\ RequiredString(doc.customerPhone)
    /\ RequiredString(doc.customerAddress)
    /\ doc.quantity.t = "number" /\ doc.quantity.n >= 1
    /\ doc.bookingDate.t = "number"
    /\ \A p \in {doc.actualPrice, doc.strikePrice, doc.sellingPrice,
                 doc.totalAmount, doc.discountPercentage} :
          p.t = "number" /\ p.n >= 0
    /\ doc.discountPercentage.n <= 100

(***************************************************************************)
(* User accounts, as the users router reads and writes them.               *)
(***************************************************************************)
JsBool(b) == [t |-> "boolean", s |-> <<>>, n |-> IF b THEN 1 ELSE 0]

\* The accounts in the store: every identity has one, each with an email
\* and a phone of its own.
InitialUsers ==
    [u \in Users |->
        [ email |-> <<u, "@x.in">>, phone |-> <<"9", u>>,
          role |-> Role(u), isActive |-> TRUE ]]

\* The fields of req.body an update of a user sets.
EmptyUserBody == [email |-> JsUndef, phone |-> JsUndef, role |-> JsUndef, isActive |-> JsUndef]

\* An email and a phone no account holds.
FreeEmail == <<"new", "@x.in">>

FreePhone == <<"9", "new">>

\* The bodies of PUT /api/users/:id: the email or the phone of "u2" alone,
\* each of them together with a free value of the other, both free values,
\* a role, and isActive = false.
UserBodies ==
    { [EmptyUserBody EXCEPT !.email = JsStr(InitialUsers["u2"].email)],
      [EmptyUserBody EXCEPT !.phone = JsStr(InitialUsers["u2"].phone)],
      [EmptyUserBody EXCEPT !.email = JsStr(InitialUsers["u2"].email),
                            !.phone = JsStr(FreePhone)],
      [EmptyUserBody EXCEPT !.email = JsStr(FreeEmail),
                            !.phone = JsStr(InitialUsers["u2"].phone)],
      [EmptyUserBody EXCEPT !.email = JsStr(FreeEmail), !.phone = JsStr(FreePhone)],
      [EmptyUserBody EXCEPT !.role = JsStr(<<"user">>)],
      [EmptyUserBody EXCEPT !.role = JsStr(<<"admin">>)],
      [EmptyUserBody EXCEPT !.isActive = JsBool(FALSE)] }

(***************************************************************************)
(* The inputs the requests are drawn from.                                 *)
(***************************************************************************)
ValidText == <<"o","k">>

BlankText == <<" "," ">>

\* The users who place bookings; "u2" only ever asks about the bookings of others.
Customers == {"u1", "adm"}

\* The name, image and category a client sends with its booking: those of
\* the catalogue entries, whichever product the booking is for.
Snapshot(e) ==
    [productName |-> JsStr(e.name), productImage |-> JsStr(FileA.path),
     productCategory |-> JsStr(e.category)]

\* A body that passes every check, for product pid.
WellFormedBody(pid, snap) ==
    [ EmptyBody EXCEPT
        !.productId = JsNum(pid),
        !.productName = snap.productName,
        !.productImage = snap.productImage,
        !.productCategory = snap.productCategory,
        !.customerName = JsStr(ValidText),
        !.customerPhone = JsStr(ValidText),
        !.customerAddress = JsStr(ValidText),
        !.quantity = JsNum(1),
        !.bookingDate = JsNum(1) ]

\* The catalogue entry the products of the booking specifications are made of.
Entry1 == CHOOSE e \in CatalogEntries : Len(e.name) = 3

\* The bodies of POST /api/bookings: the well-formed ones, and one of them
\* with one field left out, empty, blank or out of range.
CreateBodies ==
    { WellFormedBody(pid, Snapshot(e)) : pid \in 1..(MaxProducts + 1), e \in CatalogEntries }
    \cup
    { [WellFormedBody(1, Snapshot(Entry1)) EXCEPT ![f] = v] :
        f \in {"customerName", "customerPhone", "customerAddress"},
        v \in {JsUndef, JsStr(<<>>), JsStr(BlankText)} }
    \cup
    { [WellFormedBody(1, Snapshot(Entry1)) EXCEPT !.quantity = v] :
        v \in {JsUndef, JsNum(0), JsNum(0 - 1)} }
    \cup
    { [WellFormedBody(1, Snapshot(Entry1)) EXCEPT ![f] = JsUndef] :
        f \in {"productId", "bookingDate", "productName"} }
    \cup
    { [WellFormedBody(1, Snapshot(Entry1)) EXCEPT !.discountPercentage = JsNum(101)] }

(***************************************************************************)
(* The state: the clock, the two collections, the image storage (what has  *)
(* become of each public id), the user accounts, the store and storage     *)
(* faults still to                                                         *)
(* come, the requests in flight (pc "idle": none on that connection), and  *)
(* the response the last step sent, with the request it answers; None when *)
(* the step sent none.                                                     *)
(***************************************************************************)
VARIABLES now, products, bookings, storage, users, faults, req, out

vars == <<now, products, bookings, storage, users, faults, req, out>>

Reqs == 1..NumReqs

Resp(status, message, error, data) ==
    [status |-> status, message |-> message, error |-> error, data |-> data]

IdleReq ==
    [ pc |-> "idle", kind |-> "none", user |-> "u1", id |-> 0,
      body |-> EmptyBody, doc |-> None, todo |-> {} ]

\* A handler starts on a connection that has no request in flight.
Free(r) == req[r].pc = "idle"

\* res.status(...).json(...): the request ends.
\* `at` is the store operation the handler was at when it answered.
Respond(r, kind, user, id, coupon, body, resp) ==
    /\ req' = [req EXCEPT ![r] = IdleReq]
    /\ out' = Some([ kind |-> kind, user |-> user, id |-> id, coupon |-> coupon,
                     body |-> body, at |-> req[r].pc, resp |-> resp ])

\* The handler awaits its next store operation.
Await(r, q) ==
    /\ req' = [req EXCEPT ![r] = q]
    /\ out' = None

\* A store operation fails only while faults are left to inject.
Outcomes == IF faults > 0 THEN {"ok", "fail"} ELSE {"ok"}

Product_findById(id) == IF id \in 1..Len(products) THEN Some(products[id]) ELSE None

Booking_findById(id) == IF id \in 1..Len(bookings) THEN Some(bookings[id]) ELSE None

TypeOK ==
    /\ now \in StartTime..(StartTime + MaxTicks)
    /\ faults \in 0..MaxFaults
    /\ Len(products) <= MaxProducts
    /\ Len(bookings) <= MaxBookings
    /\ \A r \in Reqs : req[r].user \in Users

InitStore ==
    /\ now = StartTime
    /\ products = <<>>
    /\ bookings = <<>>
    /\ storage = [h \in Handles |-> "absent"]
    /\ users = InitialUsers
    /\ req = [r \in Reqs |-> IdleReq]
    /\ out = None

Init == InitStore /\ faults = 0

InitFaults == InitStore /\ faults = MaxFaults

\* Time passes.
Tick ==
    /\ now < StartTime + MaxTicks
    /\ now' = now + 1
    /\ out' = None
    /\ UNCHANGED <<products, bookings, storage, faults, req, users>>

(***************************************************************************)
(* Image storage.  uploadMultiple stores the files of a request before the *)
(* handler runs; deleteImage removes one public id, and a failure of it is *)
(* logged there and not passed on.                                         *)
(***************************************************************************)
upload(files) ==
    [h \in Handles |->
        IF \E i \in 1..Len(files) : files[i].filename = h THEN "stored" ELSE storage[h]]

deleteImage(publicId, outcome) ==
    IF outcome = "ok" THEN [storage EXCEPT ![publicId] = "deleted"] ELSE storage

(***************************************************************************)
(* POST /api/products (admin): one store operation, product.save().        *)
(***************************************************************************)
CreateProduct(r, entries, availabilities) ==
    /\ Free(r)
    /\ Len(products) < MaxProducts
    /\ \E entry \in entries, availability \in availabilities,
          files \in FileLists, outcome \in Outcomes :
          LET done(resp) == Respond(r, "createProduct", "adm", 0, <<>>, EmptyBody, resp)
          IN  /\ storage' = upload(files)
              /\ IF Len(files) < 2
                 THEN /\ done(Resp(400, "Minimum 2 product images are required", "", None))
                      /\ UNCHANGED <<products, faults>>
                 ELSE IF Len(files) > 5
                 THEN /\ done(Resp(400, "Maximum 5 product images are allowed", "", None))
                      /\ UNCHANGED <<products, faults>>
                 ELSE IF outcome = "fail"
                 THEN /\ done(Resp(500, "Server error while creating product", "", None))
                      /\ faults' = faults - 1
                      /\ UNCHANGED products
                 ELSE /\ products' = Append(products, NewProduct(entry, availability, files, "adm"))
                      /\ done(Resp(201, "Product created successfully", "",
                                   Some(NewProduct(entry, availability, files, "adm"))))
                      /\ UNCHANGED faults
    /\ UNCHANGED <<now, bookings, users>>

(***************************************************************************)
(* GET /api/products/:id (public): the read, then the view counter.        *)
(***************************************************************************)
GetProductFind(r) ==
    /\ Free(r)
    /\ \E user \in Users, id \in 1..(MaxProducts + 1), outcome \in Outcomes :
          LET done(resp) == Respond(r, "getProduct", user, id, <<>>, EmptyBody, resp)
              product == Product_findById(id)
          IN  IF outcome = "fail"
              THEN /\ done(Resp(500, "Server error while fetching product", "", None))
                   /\ faults' = faults - 1
              ELSE IF product = None
              THEN /\ done(Resp(404, "Product not found", "", None))
                   /\ UNCHANGED faults
              ELSE IF ~product[1].isActive
              THEN /\ done(Resp(404, "Product not available", "", None))
                   /\ UNCHANGED faults
              ELSE /\ product[1].views < MaxViews
                   /\ Await(r,
                                [IdleReq EXCEPT !.pc = "product_inc", !.kind = "getProduct",
                                                !.user = user, !.id = id, !.doc = product])
                   /\ UNCHANGED faults
    /\ UNCHANGED <<now, products, bookings, storage, users>>

\* await Product.findByIdAndUpdate(id, { $inc: { views: 1 } }); res.json({ product })
GetProductIncViews(r) ==
    /\ req[r].pc = "product_inc"
    /\ \E outcome \in Outcomes :
          LET q == req[r]
              done(resp) == Respond(r, q.kind, q.user, q.id, <<>>, EmptyBody, resp)
          IN  IF outcome = "fail"
              THEN /\ done(Resp(500, "Server error while fetching product", "", None))
                   /\ faults' = faults - 1
                   /\ UNCHANGED products
              ELSE /\ products' = [products EXCEPT ![q.id].views = @ + 1]
                   /\ done(Resp(200, "", "", q.doc))
                   /\ UNCHANGED faults
    /\ UNCHANGED <<now, bookings, storage, users>>

(***************************************************************************)
(* PUT /api/products/:id (admin): findById, the storage deletes of the     *)
(* images that are not kept, then findByIdAndUpdate.                       *)
(***************************************************************************)
\* The fields of req.body an update sets; a field left out is undefined.
EmptyUpdate == [availability |-> JsUndef, views |-> JsUndef, likes |-> JsUndef]

\* The bodies of PUT /api/products/:id: an edit of the availability, and
\* bodies that name the counters.
UpdateBodies ==
    { [EmptyUpdate EXCEPT !.availability = JsStr(<<"Out of Stock">>)],
      [EmptyUpdate EXCEPT !.views = JsNum(0)],
      [EmptyUpdate EXCEPT !.likes = JsNum(0 - 1)] }

\* The indices of a sequence whose element passes the test, in order.
RECURSIVE FilterIndices(_, _, _)
FilterIndices(seq, k, keep) ==
    IF k > Len(seq) THEN <<>>
    ELSE (IF seq[k] \in keep THEN <<k>> ELSE <<>>) \o FilterIndices(seq, k + 1, keep)

\* product.imagePublicIds.filter(id => existingPublicIdsToKeep.includes(id))
KeptImagePublicIds(product, keep) ==
    LET ix == FilterIndices(product.imagePublicIds, 1, keep)
    IN  [k \in 1..Len(ix) |-> product.imagePublicIds[ix[k]]]

\* Variant: every stored path is kept, whatever ids the client keeps.
KeptImagePaths_Unfiltered(product, keep) == product.images

\* product.images.filter((path, index) =>
\*     existingPublicIdsToKeep.includes(product.imagePublicIds[index]))
KeptImagePaths(product, keep) ==
    LET ix == FilterIndices(product.imagePublicIds, 1, keep)
    IN  [k \in 1..Len(ix) |-> product.images[ix[k]]]

\* product.imagePublicIds.filter(id => !existingPublicIdsToKeep.includes(id))
PublicIdsToDelete(product, keep) ==
    { product.imagePublicIds[k] : k \in 1..Len(product.imagePublicIds) } \ keep

\* updateData: the body, with images and imagePublicIds set by the handler.
UpdateData(product, body, keep, files) ==
    [ availability |-> body.availability,
      views |-> body.views,
      likes |-> body.likes,
      imagePublicIds |-> KeptImagePublicIds(product, keep)
                            \o [i \in 1..Len(files) |-> files[i].filename],
      images |-> KeptImagePaths(product, keep)
                    \o [i \in 1..Len(files) |-> files[i].path] ]

\* Product.findByIdAndUpdate(id, updateData): $set of the fields given.
Product_findByIdAndUpdate(id, updateData) ==
    [products EXCEPT ![id] =
        [ @ EXCEPT
            !.availability = IF updateData.availability.t = "undefined"
                             THEN @ ELSE updateData.availability.s[1],
            !.views = IF updateData.views.t = "undefined" THEN @ ELSE updateData.views.n,
            !.likes = IF updateData.likes.t = "undefined" THEN @ ELSE updateData.likes.n,
            !.imagePublicIds = updateData.imagePublicIds,
            !.images = updateData.images ]]

\* Each upload gets a public id of its own.
Fresh(files) == \A i \in 1..Len(files) : storage[files[i].filename] = "absent"

\* The images a client leaves out of existingImagePublicIds: none, one of
\* them, or all.
DropInputs == { {} } \cup { {h} : h \in Handles } \cup { Handles }

\* existingImagePublicIds: the public ids the client saw, less the dropped.
ExistingImagePublicIds(product, drop) ==
    IF product = None THEN {}
    ELSE { product[1].imagePublicIds[k] : k \in 1..Len(product[1].imagePublicIds) } \ drop

UpdateProductFind(r, bodies, fileLists, drops) ==
    /\ Free(r)
    /\ \E id \in 1..MaxProducts, body \in bodies, files \in fileLists,
          drop \in drops, outcome \in Outcomes :
          LET done(resp) == Respond(r, "updateProduct", "adm", id, <<>>, EmptyBody, resp)
              product == Product_findById(id)
              keep == ExistingImagePublicIds(product, drop)
              updateData == UpdateData(product[1], body, keep, files)
              publicIdsToDelete == PublicIdsToDelete(product[1], keep)
              q == [IdleReq EXCEPT !.kind = "updateProduct", !.user = "adm", !.id = id,
                                   !.doc = Some(updateData)]
          IN  /\ Fresh(files)
              /\ storage' = upload(files)
              /\ IF outcome = "fail"
                 THEN /\ done(Resp(500, "Server error while updating product", "", None))
                      /\ faults' = faults - 1
                 ELSE IF product = None
                 THEN /\ done(Resp(404, "Product not found", "", None))
                      /\ UNCHANGED faults
                 ELSE IF Len(updateData.images) < 2
                 THEN /\ done(Resp(400, "Minimum 2 product images are required", "", None))
                      /\ UNCHANGED faults
                 ELSE IF Len(updateData.images) > 5
                 THEN /\ done(Resp(400, "Maximum 5 product images are allowed", "", None))
                      /\ UNCHANGED faults
                 ELSE IF publicIdsToDelete # {}
                 THEN /\ Await(r, [q EXCEPT !.pc = "update_delete",
                                            !.todo = publicIdsToDelete])
                      /\ UNCHANGED faults
                 ELSE /\ Await(r, [q EXCEPT !.pc = "update_write"])
                      /\ UNCHANGED faults
    /\ UNCHANGED <<now, products, bookings, users>>

\* Variant: a storage delete that fails ends the request with an error.
DeleteImages_FailureEndsRequest(r) ==
    /\ req[r].pc \in {"update_delete", "remove_delete"}
    /\ \E publicId \in req[r].todo, outcome \in Outcomes :
          LET q == req[r]
              next == IF q.pc = "update_delete" THEN "update_write" ELSE "remove_save"
          IN  /\ storage' = deleteImage(publicId, outcome)
              /\ faults' = IF outcome = "fail" THEN faults - 1 ELSE faults
              /\ IF outcome = "fail"
                 THEN Respond(r, q.kind, q.user, q.id, <<>>, EmptyBody,
                              Resp(500, "Server error", "storage", None))
                 ELSE Await(r, [q EXCEPT !.todo = @ \ {publicId},
                                         !.pc = IF q.todo = {publicId} THEN next ELSE @])
    /\ UNCHANGED <<now, products, bookings, users>>

\* await Promise.all(ids.map(id => deleteImage(id))): the deletes complete
\* one by one, in any order; the handler goes on when all have.
DeleteImages(r) ==
    /\ req[r].pc \in {"update_delete", "remove_delete"}
    /\ \E publicId \in req[r].todo, outcome \in Outcomes :
          LET q == req[r]
              next == IF q.pc = "update_delete" THEN "update_write" ELSE "remove_save"
          IN  /\ storage' = deleteImage(publicId, outcome)
              /\ faults' = IF outcome = "fail" THEN faults - 1 ELSE faults
              /\ Await(r, [q EXCEPT !.todo = @ \ {publicId},
                                    !.pc = IF q.todo = {publicId} THEN next ELSE @])
    /\ UNCHANGED <<now, products, bookings, users>>

UpdateProductWrite(r) ==
    /\ req[r].pc = "update_write"
    /\ \E outcome \in Outcomes :
          LET q == req[r]
              done(resp) == Respond(r, q.kind, q.user, q.id, <<>>, EmptyBody, resp)
          IN  IF outcome = "fail"
              THEN /\ done(Resp(500, "Server error while updating product", "", None))
                   /\ faults' = faults - 1
                   /\ UNCHANGED products
              ELSE /\ products' = Product_findByIdAndUpdate(q.id, q.doc[1])
                   /\ done(Resp(200, "Product updated successfully", "",
                                Some(Product_findByIdAndUpdate(q.id, q.doc[1])[q.id])))
                   /\ UNCHANGED faults
    /\ UNCHANGED <<now, bookings, storage, users>>

(***************************************************************************)
(* DELETE /api/products/:id (admin): findById, the storage deletes of all  *)
(* images, then product.save() with isActive = false.                      *)
(***************************************************************************)
DeleteProductFind(r) ==
    /\ Free(r)
    /\ \E id \in 1..MaxProducts, outcome \in Outcomes :
          LET done(resp) == Respond(r, "deleteProduct", "adm", id, <<>>, EmptyBody, resp)
              product == Product_findById(id)
              q == [IdleReq EXCEPT !.kind = "deleteProduct", !.user = "adm", !.id = id]
          IN  IF outcome = "fail"
              THEN /\ done(Resp(500, "Server error while deleting product", "", None))
                   /\ faults' = faults - 1
              ELSE IF product = None
              THEN /\ done(Resp(404, "Product not found", "", None))
                   /\ UNCHANGED faults
              ELSE IF Len(product[1].imagePublicIds) > 0
              THEN /\ Await(r, [q EXCEPT !.pc = "remove_delete",
                                         !.todo = { product[1].imagePublicIds[k] :
                                                      k \in 1..Len(product[1].imagePublicIds) }])
                   /\ UNCHANGED faults
              ELSE /\ Await(r, [q EXCEPT !.pc = "remove_save"])
                   /\ UNCHANGED faults
    /\ UNCHANGED <<now, products, bookings, storage, users>>

\* product.isActive = false; await product.save()
DeleteProductSave(r) ==
    /\ req[r].pc = "remove_save"
    /\ \E outcome \in Outcomes :
          LET q == req[r]
              done(resp) == Respond(r, q.kind, q.user, q.id, <<>>, EmptyBody, resp)
          IN  IF outcome = "fail"
              THEN /\ done(Resp(500, "Server error while deleting product", "", None))
                   /\ faults' = faults - 1
                   /\ UNCHANGED products
              ELSE /\ products' = [products EXCEPT ![q.id].isActive = FALSE]
                   /\ done(Resp(200, "Product deleted successfully", "", None))
                   /\ UNCHANGED faults
    /\ UNCHANGED <<now, bookings, storage, users>>

(***************************************************************************)
(* POST /api/bookings: the presence check and Product.findById, then       *)
(* Booking.create.                                                         *)
(***************************************************************************)
\* Variant: only a discontinued product is refused.
Bookable_UnlessDiscontinued(product) == product.availability # "Discontinued"

\* Variant: a soft-deleted product is refused too.
Bookable_ActiveOnly(product) == product.availability = "Available" /\ product.isActive

\* if (product.availability !== "Available") return 400
Bookable(product) == product.availability = "Available"

\* Creates under way: each will ask the store for one more document.
Creating == { q \in Reqs : req[q].pc = "create_insert" }

CreateBookingFindProduct(r, capacity, customers, bodies, randoms) ==
    /\ Free(r)
    /\ Len(bookings) + Cardinality(Creating) < capacity
    /\ \E user \in customers, body \in bodies, random \in randoms,
          outcome \in Outcomes :
          LET done(resp) == Respond(r, "createBooking", user, 0, <<>>, body, resp)
              product == Product_findById(body.productId.n)
          IN  IF MissingRequiredField(body)
              THEN /\ done(Resp(400, "Please provide all required fields", "", None))
                   /\ UNCHANGED faults
              ELSE IF outcome = "fail"
              THEN /\ done(Resp(500, "Failed to create booking", "store", None))
                   /\ faults' = faults - 1
              ELSE IF product = None
              THEN /\ done(Resp(404, "Product not found", "", None))
                   /\ UNCHANGED faults
              ELSE IF ~Bookable(product[1])
              THEN /\ done(Resp(400, "Product is not available for booking", "", None))
                   /\ UNCHANGED faults
              ELSE /\ Await(r,
                                [IdleReq EXCEPT !.pc = "create_insert",
                                                !.kind = "createBooking",
                                                !.user = user, !.body = body,
                                                !.doc = Some(NewBooking(body, user, now, random))])
                   /\ UNCHANGED faults
    /\ UNCHANGED <<now, products, bookings, storage, users>>

\* Variant: the collection has no unique index on couponCode.
DuplicateKey_NoIndex(doc) == FALSE

\* The unique index on couponCode: the insert is refused (E11000) when a stored
\* booking holds the code.
DuplicateKey(doc) == \E i \in 1..Len(bookings) : bookings[i].couponCode = doc.couponCode

\* The store's insert of a validated document.
Booking_insert(doc) == Append(bookings, doc)

\* Variant: the insert also takes the booked quantity off the product's stock.
CreateBookingInsert_TakesStock(r) ==
    /\ req[r].pc = "create_insert"
    /\ LET q == req[r]
           doc == q.doc[1]
       IN  /\ ValidBooking(doc)
           /\ ~DuplicateKey(doc)
           /\ bookings' = Booking_insert(doc)
           /\ products' = [products EXCEPT ![doc.productId].stock = @ - doc.quantity.n]
           /\ Respond(r, q.kind, q.user, 0, <<>>, q.body,
                      Resp(201, "Booking created successfully", "", Some(doc)))
    /\ UNCHANGED <<now, faults, storage, users>>

CreateBookingInsert(r) ==
    /\ req[r].pc = "create_insert"
    /\ \E outcome \in Outcomes :
          LET q == req[r]
              doc == q.doc[1]
              done(resp) == Respond(r, q.kind, q.user, 0, <<>>, q.body, resp)
          IN  IF ~ValidBooking(doc)
              THEN /\ done(Resp(500, "Failed to create booking", "validation", None))
                   /\ UNCHANGED <<bookings, faults>>
              ELSE IF outcome = "fail"
              THEN /\ done(Resp(500, "Failed to create booking", "store", None))
                   /\ faults' = faults - 1
                   /\ UNCHANGED bookings
              ELSE IF DuplicateKey(doc)
              THEN /\ done(Resp(500, "Failed to create booking", "E11000", None))
                   /\ UNCHANGED <<bookings, faults>>
              ELSE /\ bookings' = Booking_insert(doc)
                   /\ done(Resp(201, "Booking created successfully", "", Some(doc)))
                   /\ UNCHANGED faults
    /\ UNCHANGED <<now, products, storage, users>>

(***************************************************************************)
(* GET /api/bookings/:id and GET /api/bookings/coupon/:couponCode.         *)
(***************************************************************************)
isAdmin(user) == Role(user) = "admin"

\* Variant: the ownership comparison always succeeds.
isOwner_Anyone(booking, user) == TRUE

isOwner(booking, user) == booking.userId = user

\* The response that ends a read early, None when the booking may be shown.
ViewRejection(booking, user, notFound) ==
    IF booking = None
    THEN Some(Resp(404, notFound, "", None))
    ELSE IF ~isAdmin(user) /\ ~isOwner(booking[1], user)
    THEN Some(Resp(403, "Not authorized to view this booking", "", None))
    ELSE None

GetBooking(r) ==
    /\ Free(r)
    /\ \E user \in Users, id \in 1..MaxLifecycleBookings, outcome \in Outcomes :
          LET done(resp) == Respond(r, "getBooking", user, id, <<>>, EmptyBody, resp)
              booking == Booking_findById(id)
              rejection == ViewRejection(booking, user, "Booking not found")
          IN  IF outcome = "fail"
              THEN /\ done(Resp(500, "Failed to fetch booking", "store", None))
                   /\ faults' = faults - 1
              ELSE IF rejection # None
              THEN /\ done(rejection[1])
                   /\ UNCHANGED faults
              ELSE /\ done(Resp(200, "", "", booking))
                   /\ UNCHANGED faults
    /\ UNCHANGED <<now, products, bookings, storage, users>>

LowerOf == [c \in {UpperChars[i] : i \in 1..Len(UpperChars)} |->
              LowerChars[CHOOSE i \in 1..Len(UpperChars) : UpperChars[i] = c]]

ToLowerChar(c) == IF c \in DOMAIN LowerOf THEN LowerOf[c] ELSE c

toLowerCase(str) == [i \in 1..Len(str) |-> ToLowerChar(str[i])]

\* The codes a client asks for: a stored code as printed or typed in lower
\* case, or a code no booking holds.
CouponInputs ==
    { bookings[i].couponCode : i \in 1..Len(bookings) }
    \cup { toLowerCase(bookings[i].couponCode) : i \in 1..Len(bookings) }
    \cup { <<"G","I","T","-","x">> }

\* Booking.findOne({ couponCode }): an exact match on the stored code.
Booking_findOneByCoupon(code) ==
    IF \E i \in 1..Len(bookings) : bookings[i].couponCode = code
    THEN Some(bookings[CHOOSE i \in 1..Len(bookings) : bookings[i].couponCode = code])
    ELSE None

\* Variant: the key is matched as the client typed it.
CouponLookup_AsTyped(user, code) ==
    LET booking == Booking_findOneByCoupon(code)
        rejection == ViewRejection(booking, user,
                                   "Booking not found with this coupon code")
    IN  IF rejection # None THEN rejection[1] ELSE Resp(200, "", "", booking)

\* The answer of the handler when the store answers: the key is upper-cased,
\* then matched.
CouponLookup(user, code) ==
    LET booking == Booking_findOneByCoupon(toUpperCase(code))
        rejection == ViewRejection(booking, user,
                                   "Booking not found with this coupon code")
    IN  IF rejection # None THEN rejection[1] ELSE Resp(200, "", "", booking)

GetBookingByCoupon(r) ==
    /\ Free(r)
    /\ \E user \in Users, code \in CouponInputs, outcome \in Outcomes :
          LET done(resp) == Respond(r, "getByCoupon", user, 0, code, EmptyBody, resp)
          IN  IF outcome = "fail"
              THEN /\ done(Resp(500, "Failed to fetch booking", "store", None))
                   /\ faults' = faults - 1
              ELSE /\ done(CouponLookup(user, code))
                   /\ UNCHANGED faults
    /\ UNCHANGED <<now, products, bookings, storage, users>>

(***************************************************************************)
(* GET /api/bookings: Booking.find(filter).sort({ orderDate: -1 }).        *)
(***************************************************************************)
\* Variant: the owner filter is left out of the query of a regular user.
ListFilter_Everyone(user) == 1..Len(bookings)

\* The stored bookings the query matches: all of them for an admin, those
\* with userId = req.user._id for anyone else.
ListFilter(user) ==
    IF Role(user) = "admin"
    THEN 1..Len(bookings)
    ELSE { i \in 1..Len(bookings) : bookings[i].userId = user }

\* The orders in which the indices of ids can be listed, each once.
Orderings(ids) ==
    { s \in [1..Cardinality(ids) -> ids] :
        \A i, j \in 1..Cardinality(ids) : i # j => s[i] # s[j] }

\* Variant: the sort is ascending, { orderDate: 1 }.
SortedByOrderDate_Ascending(s) ==
    \A i \in 1..(Len(s) - 1) : bookings[s[i]].orderDate <= bookings[s[i + 1]].orderDate

\* sort({ orderDate: -1 }): no booking comes before a more recent one.  The
\* store leaves the order of bookings with equal orderDate open.
SortedByOrderDate(s) ==
    \A i \in 1..(Len(s) - 1) : bookings[s[i]].orderDate >= bookings[s[i + 1]].orderDate

\* The results the query can give.
Booking_find(user) ==
    { [i \in 1..Len(s) |-> bookings[s[i]]] :
        s \in { o \in Orderings(ListFilter(user)) : SortedByOrderDate(o) } }

ListBookings(r) ==
    /\ Free(r)
    /\ \E user \in Users, outcome \in Outcomes :
          LET done(resp) == Respond(r, "listBookings", user, 0, <<>>, EmptyBody, resp)
          IN  IF outcome = "fail"
              THEN /\ done(Resp(500, "Failed to fetch bookings", "store", None))
                   /\ faults' = faults - 1
              ELSE /\ \E list \in Booking_find(user) :
                         done(Resp(200, "", "", Some(list)))
                   /\ UNCHANGED faults
    /\ UNCHANGED <<now, products, bookings, storage, users>>

(***************************************************************************)
(* bookingSchema.methods.updateStatus and document.save().                 *)
(***************************************************************************)
\* The assignments of updateStatus on the loaded document.
updateStatus(doc, newStatus, clock) ==
    IF newStatus = "cancelled"
    THEN [doc EXCEPT !.status = newStatus, !.cancelledAt = Some(clock)]
    ELSE IF newStatus = "completed"
    THEN [doc EXCEPT !.status = newStatus, !.completedAt = Some(clock)]
    ELSE [doc EXCEPT !.status = newStatus]

\* document.save(): updateOne({ _id }, { $set: <the modified paths> }).  Only
\* the paths assigned since the document was loaded or last saved are sent.
Booking_save(id, doc, paths) ==
    [bookings EXCEPT ![id] =
        [f \in DOMAIN bookings[id] |-> IF f \in paths THEN doc[f] ELSE bookings[id][f]]]

ReasonInputs == { JsUndef, JsStr(<<"n","o">>) }

(***************************************************************************)
(* PATCH /api/bookings/:id/cancel: findById, updateStatus' save, then the  *)
(* handler's own save of cancellationReason.                               *)
(***************************************************************************)
\* Variant: the handler without its check for a completed booking.
CancelRejection_NoCompletedCheck(booking, user) ==
    IF booking = None
    THEN Some(Resp(404, "Booking not found", "", None))
    ELSE IF ~isAdmin(user) /\ ~isOwner(booking[1], user)
    THEN Some(Resp(403, "Not authorized to cancel this booking", "", None))
    ELSE IF booking[1].status = "cancelled"
    THEN Some(Resp(400, "Booking is already cancelled", "", None))
    ELSE None

\* The response that ends a cancel before it writes, None when it goes on.
CancelRejection(booking, user) ==
    IF booking = None
    THEN Some(Resp(404, "Booking not found", "", None))
    ELSE IF ~isAdmin(user) /\ ~isOwner(booking[1], user)
    THEN Some(Resp(403, "Not authorized to cancel this booking", "", None))
    ELSE IF booking[1].status = "cancelled"
    THEN Some(Resp(400, "Booking is already cancelled", "", None))
    ELSE IF booking[1].status = "completed"
    THEN Some(Resp(400, "Cannot cancel a completed booking", "", None))
    ELSE None

CancelFind(r) ==
    /\ Free(r)
    /\ \E user \in Users, id \in 1..MaxLifecycleBookings, reason \in ReasonInputs,
          outcome \in Outcomes :
          LET body == [EmptyBody EXCEPT !.reason = reason]
              done(resp) == Respond(r, "cancel", user, id, <<>>, body, resp)
              booking == Booking_findById(id)
              rejection == CancelRejection(booking, user)
          IN  IF outcome = "fail"
              THEN /\ done(Resp(500, "Failed to cancel booking", "store", None))
                   /\ faults' = faults - 1
              ELSE IF rejection # None
              THEN /\ done(rejection[1])
                   /\ UNCHANGED faults
              ELSE /\ Await(r, [IdleReq EXCEPT
                                  !.pc = "cancel_status", !.kind = "cancel",
                                  !.user = user, !.id = id, !.body = body,
                                  !.doc = Some(updateStatus(booking[1], "cancelled", now))])
                   /\ UNCHANGED faults
    /\ UNCHANGED <<now, products, bookings, storage, users>>

\* The reason the handler assigns after updateStatus has saved.
CancellationReason(body, user) ==
    IF ~Falsy(body.reason)
    THEN body.reason.s
    ELSE IF isAdmin(user) THEN <<"Cancelled by Admin">> ELSE <<"Cancelled by customer">>

CancelUpdateStatus(r) ==
    /\ req[r].pc = "cancel_status"
    /\ \E outcome \in Outcomes :
          LET q == req[r]
          IN  IF outcome = "fail"
              THEN /\ Respond(r, q.kind, q.user, q.id, <<>>, q.body,
                              Resp(500, "Failed to cancel booking", "store", None))
                   /\ faults' = faults - 1
                   /\ UNCHANGED bookings
              ELSE /\ bookings' = Booking_save(q.id, q.doc[1], {"status", "cancelledAt"})
                   /\ Await(r, [q EXCEPT !.pc = "cancel_reason",
                                          !.doc = Some([q.doc[1] EXCEPT
                                             !.cancellationReason =
                                                 Some(CancellationReason(q.body, q.user))])])
                   /\ UNCHANGED faults
    /\ UNCHANGED <<now, products, storage, users>>

CancelSaveReason(r) ==
    /\ req[r].pc = "cancel_reason"
    /\ \E outcome \in Outcomes :
          LET q == req[r]
          IN  IF outcome = "fail"
              THEN /\ Respond(r, q.kind, q.user, q.id, <<>>, q.body,
                              Resp(500, "Failed to cancel booking", "store", None))
                   /\ faults' = faults - 1
                   /\ UNCHANGED bookings
              ELSE /\ bookings' = Booking_save(q.id, q.doc[1], {"cancellationReason"})
                   /\ Respond(r, q.kind, q.user, q.id, <<>>, q.body,
                              Resp(200, "Booking cancelled successfully", "", q.doc))
                   /\ UNCHANGED faults
    /\ UNCHANGED <<now, products, storage, users>>

(***************************************************************************)
(* PATCH /api/bookings/:id/complete: the role check, findById,             *)
(* updateStatus' save, then a second save with nothing left to send.       *)
(***************************************************************************)
\* The response that ends a complete after its read, None when it goes on.
CompleteRejection(booking) ==
    IF booking = None
    THEN Some(Resp(404, "Booking not found", "", None))
    ELSE IF booking[1].status = "completed"
    THEN Some(Resp(400, "Booking is already marked as completed", "", None))
    ELSE IF booking[1].status = "cancelled"
    THEN Some(Resp(400, "Cannot complete a cancelled booking", "", None))
    ELSE None

CompleteFind(r) ==
    /\ Free(r)
    /\ \E user \in Users, id \in 1..MaxLifecycleBookings, outcome \in Outcomes :
          LET done(resp) == Respond(r, "complete", user, id, <<>>, EmptyBody, resp)
              booking == Booking_findById(id)
              rejection == CompleteRejection(booking)
          IN  IF ~isAdmin(user)
              THEN /\ done(Resp(403, "Not authorized. Admin access required.", "", None))
                   /\ UNCHANGED faults
              ELSE IF outcome = "fail"
              THEN /\ done(Resp(500, "Failed to complete booking", "store", None))
                   /\ faults' = faults - 1
              ELSE IF rejection # None
              THEN /\ done(rejection[1])
                   /\ UNCHANGED faults
              ELSE /\ Await(r, [IdleReq EXCEPT
                                  !.pc = "complete_status", !.kind = "complete",
                                  !.user = user, !.id = id,
                                  !.doc = Some(updateStatus(booking[1], "completed", now))])
                   /\ UNCHANGED faults
    /\ UNCHANGED <<now, products, bookings, storage, users>>

CompleteUpdateStatus(r) ==
    /\ req[r].pc = "complete_status"
    /\ \E outcome \in Outcomes :
          LET q == req[r]
          IN  IF outcome = "fail"
              THEN /\ Respond(r, q.kind, q.user, q.id, <<>>, q.body,
                              Resp(500, "Failed to complete booking", "store", None))
                   /\ faults' = faults - 1
                   /\ UNCHANGED bookings
              ELSE /\ bookings' = Booking_save(q.id, q.doc[1], {"status", "completedAt"})
                   /\ Await(r, [q EXCEPT !.pc = "complete_save"])
                   /\ UNCHANGED faults
    /\ UNCHANGED <<now, products, storage, users>>

\* await booking.save() with no modified path: nothing reaches the store.
CompleteSave(r) ==
    /\ req[r].pc = "complete_save"
    /\ LET q == req[r]
       IN  Respond(r, q.kind, q.user, q.id, <<>>, q.body,
                   Resp(200, "Booking marked as completed successfully", "", q.doc))
    /\ UNCHANGED <<now, products, bookings, faults, storage, users>>

(***************************************************************************)
(* PUT /api/users/:id (admin): findById, the guard against self-demotion,  *)
(* the conflict query, then findByIdAndUpdate.                             *)
(***************************************************************************)
\* requireAdmin: the accounts that may call the users router.
Admins == { u \in Users : users[u].role = "admin" }

User_findById(id) == IF id \in Users THEN Some(users[id]) ELSE None

\* req.user._id.toString() === req.params.id && req.body.role === 'user'
SelfDemotion(requester, id, body) ==
    requester = id /\ body.role = JsStr(<<"user">>)

\* The accounts conflictFilter matches: not the target, and holding every
\* one of email and phone that the body gives.
ConflictingUsers(id, updateData) ==
    { u \in Users \ {id} :
        /\ ~Falsy(updateData.email) => users[u].email = updateData.email.s
        /\ ~Falsy(updateData.phone) => users[u].phone = updateData.phone.s }

\* User.findByIdAndUpdate(id, updateData): $set of the fields given.
User_findByIdAndUpdate(id, updateData) ==
    [users EXCEPT ![id] =
        [ email |-> IF updateData.email.t = "undefined" THEN @.email ELSE updateData.email.s,
          phone |-> IF updateData.phone.t = "undefined" THEN @.phone ELSE updateData.phone.s,
          role |-> IF updateData.role.t = "undefined" THEN @.role ELSE updateData.role.s[1],
          isActive |-> IF updateData.isActive.t = "undefined"
                       THEN @.isActive ELSE updateData.isActive.n = 1 ]]

\* The write leaves two accounts with one email or one phone: a unique
\* index on the path, if the collection has one, refuses it.
DuplicatesAfter(id, updateData) ==
    \E u \in Users \ {id} :
        \/ User_findByIdAndUpdate(id, updateData)[id].email = users[u].email
        \/ User_findByIdAndUpdate(id, updateData)[id].phone = users[u].phone

UpdateUserFind(r, ids, bodies) ==
    /\ Free(r)
    /\ \E requester \in Admins, id \in ids, body \in bodies, outcome \in Outcomes :
          LET done(resp) == Respond(r, "updateUser", requester, id, <<>>, body, resp)
              user == User_findById(id)
              q == [IdleReq EXCEPT !.kind = "updateUser", !.user = requester, !.id = id,
                                   !.doc = Some(body)]
          IN  IF outcome = "fail"
              THEN /\ done(Resp(500, "Server error while updating user", "", None))
                   /\ faults' = faults - 1
              ELSE IF user = None
              THEN /\ done(Resp(404, "User not found", "", None))
                   /\ UNCHANGED faults
              ELSE IF SelfDemotion(requester, id, body)
              THEN /\ done(Resp(400, "Cannot demote yourself from admin role", "", None))
                   /\ UNCHANGED faults
              ELSE IF ~Falsy(body.email) \/ ~Falsy(body.phone)
              THEN /\ Await(r, [q EXCEPT !.pc = "user_conflict"])
                   /\ UNCHANGED faults
              ELSE /\ Await(r, [q EXCEPT !.pc = "user_write"])
                   /\ UNCHANGED faults
    /\ UNCHANGED <<now, products, bookings, storage, users>>

\* const existingUser = await User.findOne(conflictFilter)
UpdateUserConflict(r) ==
    /\ req[r].pc = "user_conflict"
    /\ \E outcome \in Outcomes :
          LET q == req[r]
              done(resp) == Respond(r, q.kind, q.user, q.id, <<>>, q.doc[1], resp)
              existing == ConflictingUsers(q.id, q.doc[1])
          IN  IF outcome = "fail"
              THEN /\ done(Resp(500, "Server error while updating user", "", None))
                   /\ faults' = faults - 1
              ELSE IF existing # {}
              THEN /\ \E u \in existing :
                         done(Resp(400, IF users[u].email = q.doc[1].email.s
                                        THEN "Email already in use"
                                        ELSE "Phone number already in use", "", None))
                   /\ UNCHANGED faults
              ELSE /\ Await(r, [q EXCEPT !.pc = "user_write"])
                   /\ UNCHANGED faults
    /\ UNCHANGED <<now, products, bookings, storage, users>>

\* The schema of the users collection decides whether email and phone carry
\* a unique index; the write is refused by one, or goes through.
UserIndexes == {"unique", "none"}

UpdateUserWrite(r) ==
    /\ req[r].pc = "user_write"
    /\ \E outcome \in Outcomes, index \in UserIndexes :
          LET q == req[r]
              done(resp) == Respond(r, q.kind, q.user, q.id, <<>>, q.doc[1], resp)
          IN  IF outcome = "fail"
              THEN /\ done(Resp(500, "Server error while updating user", "store", None))
                   /\ faults' = faults - 1
                   /\ UNCHANGED users
              ELSE IF index = "unique" /\ DuplicatesAfter(q.id, q.doc[1])
              THEN /\ done(Resp(500, "Server error while updating user", "E11000", None))
                   /\ UNCHANGED <<users, faults>>
              ELSE /\ users' = User_findByIdAndUpdate(q.id, q.doc[1])
                   /\ done(Resp(200, "User updated successfully", "",
                                Some(User_findByIdAndUpdate(q.id, q.doc[1])[q.id])))
                   /\ UNCHANGED faults
    /\ UNCHANGED <<now, products, bookings, storage>>

(***************************************************************************)
(* DELETE /api/users/:id (admin): findById, the guard against deleting     *)
(* oneself, then user.save() with isActive = false.                        *)
(***************************************************************************)
DeleteUserFind(r, ids) ==
    /\ Free(r)
    /\ \E requester \in Admins, id \in ids, outcome \in Outcomes :
          LET done(resp) == Respond(r, "deleteUser", requester, id, <<>>, EmptyBody, resp)
              user == User_findById(id)
          IN  IF outcome = "fail"
              THEN /\ done(Resp(500, "Server error while deleting user", "", None))
                   /\ faults' = faults - 1
              ELSE IF user = None
              THEN /\ done(Resp(404, "User not found", "", None))
                   /\ UNCHANGED faults
              ELSE IF requester = id
              THEN /\ done(Resp(400, "Cannot delete your own account", "", None))
                   /\ UNCHANGED faults
              ELSE /\ Await(r, [IdleReq EXCEPT !.pc = "user_remove", !.kind = "deleteUser",
                                               !.user = requester, !.id = id])
                   /\ UNCHANGED faults
    /\ UNCHANGED <<now, products, bookings, storage, users>>

DeleteUserSave(r) ==
    /\ req[r].pc = "user_remove"
    /\ \E outcome \in Outcomes :
          LET q == req[r]
              done(resp) == Respond(r, q.kind, q.user, q.id, <<>>, EmptyBody, resp)
          IN  IF outcome = "fail"
              THEN /\ done(Resp(500, "Server error while deleting user", "", None))
                   /\ faults' = faults - 1
                   /\ UNCHANGED users
              ELSE /\ users' = [users EXCEPT ![q.id].isActive = FALSE]
                   /\ done(Resp(200, "User deleted successfully", "", None))
                   /\ UNCHANGED faults
    /\ UNCHANGED <<now, products, bookings, storage>>

(***************************************************************************)
(* The specifications.  Each takes the requests of one part of the API,    *)
(* with the inputs that part's properties turn on:                         *)
(*   Spec         the booking lifecycle: one well-formed booking body,     *)
(*                every user reading, cancelling and completing;           *)
(*   SpecCreate   booking creation: every body of CreateBodies, products   *)
(*                of every availability, colliding coupon codes;           *)
(*   SpecCatalog  the public product fetch, with a store that may fail.    *)
(***************************************************************************)
LifecycleBodies == { WellFormedBody(1, Snapshot(Entry1)) }

LifecycleSuffixes == { <<"k","3","x","9">> }

NextBookings ==
    \/ Tick
    \/ \E r \in Reqs : CreateProduct(r, {Entry1}, {"Available"})
    \/ \E r \in Reqs : CreateBookingFindProduct(r, MaxLifecycleBookings, Customers,
                                                LifecycleBodies, LifecycleSuffixes)
    \/ \E r \in Reqs : CreateBookingInsert(r)
    \/ \E r \in Reqs : GetBooking(r)
    \/ \E r \in Reqs : GetBookingByCoupon(r)
    \/ \E r \in Reqs : CancelFind(r)
    \/ \E r \in Reqs : CancelUpdateStatus(r)
    \/ \E r \in Reqs : CancelSaveReason(r)
    \/ \E r \in Reqs : CompleteFind(r)
    \/ \E r \in Reqs : CompleteUpdateStatus(r)
    \/ \E r \in Reqs : CompleteSave(r)

NextCreate ==
    \/ Tick
    \/ \E r \in Reqs : CreateProduct(r, {Entry1}, Availabilities)
    \/ \E r \in Reqs : CreateBookingFindProduct(r, MaxBookings, {"u1"},
                                                CreateBodies, RandomSuffixes)
    \/ \E r \in Reqs : CreateBookingInsert(r)

NextCatalog ==
    \/ Tick
    \/ \E r \in Reqs : CreateProduct(r, CatalogEntries, Availabilities)
    \/ \E r \in Reqs : GetProductFind(r)
    \/ \E r \in Reqs : GetProductIncViews(r)

\* The bookings list: bookings of two users, placed at different times.
NextList ==
    \/ Tick
    \/ \E r \in Reqs : CreateProduct(r, {Entry1}, {"Available"})
    \/ \E r \in Reqs : CreateBookingFindProduct(r, MaxBookings, Customers,
                                                LifecycleBodies, RandomSuffixes)
    \/ \E r \in Reqs : CreateBookingInsert(r)
    \/ \E r \in Reqs : ListBookings(r)

\* The counters of a product: fetched, updated with the bodies of
\* UpdateBodies (no image is added or dropped) and soft-deleted.
NextCounters ==
    \/ \E r \in Reqs : CreateProduct(r, {Entry1}, {"Available"})
    \/ \E r \in Reqs : GetProductFind(r)
    \/ \E r \in Reqs : GetProductIncViews(r)
    \/ \E r \in Reqs : UpdateProductFind(r, UpdateBodies, { <<>> }, { {} })
    \/ \E r \in Reqs : UpdateProductWrite(r)
    \/ \E r \in Reqs : DeleteProductFind(r)
    \/ \E r \in Reqs : DeleteImages(r)
    \/ \E r \in Reqs : DeleteProductSave(r)

\* The bodies of the updates that edit the images.
ImageEdits == { [EmptyUpdate EXCEPT !.availability = JsStr(<<"Out of Stock">>)] }

\* The images of a product under edit: updated and soft-deleted while a
\* store or storage operation may fail.
NextProducts ==
    \/ \E r \in Reqs : CreateProduct(r, {Entry1}, {"Available"})
    \/ \E r \in Reqs : UpdateProductFind(r, ImageEdits, UpdateFileLists, DropInputs)
    \/ \E r \in Reqs : DeleteImages(r)
    \/ \E r \in Reqs : UpdateProductWrite(r)
    \/ \E r \in Reqs : DeleteProductFind(r)
    \/ \E r \in Reqs : DeleteProductSave(r)

\* The contact data of an account: updates of "u1" with the bodies that
\* name an email or a phone.
ContactBodies == { b \in UserBodies : ~Falsy(b.email) \/ ~Falsy(b.phone) }

NextUsers ==
    \/ \E r \in Reqs : UpdateUserFind(r, {"u1", "nobody"}, ContactBodies)
    \/ \E r \in Reqs : UpdateUserConflict(r)
    \/ \E r \in Reqs : UpdateUserWrite(r)

\* Role and activity of the accounts: updates with the bodies that name a
\* role or isActive, and soft-deletes, of an admin and of a regular user.
RoleBodies == { b \in UserBodies : Falsy(b.email) /\ Falsy(b.phone) }

NextAdmins ==
    \/ \E r \in Reqs : UpdateUserFind(r, {"adm", "u1"}, RoleBodies)
    \/ \E r \in Reqs : UpdateUserWrite(r)
    \/ \E r \in Reqs : DeleteUserFind(r, {"adm", "u1", "nobody"})
    \/ \E r \in Reqs : DeleteUserSave(r)

\* Bookings of a product that is soft-deleted.
NextRetired ==
    \/ \E r \in Reqs : CreateProduct(r, {Entry1}, Availabilities)
    \/ \E r \in Reqs : DeleteProductFind(r)
    \/ \E r \in Reqs : DeleteImages(r)
    \/ \E r \in Reqs : DeleteProductSave(r)
    \/ \E r \in Reqs : CreateBookingFindProduct(r, MaxLifecycleBookings, {"u1"},
                                                LifecycleBodies, LifecycleSuffixes)
    \/ \E r \in Reqs : CreateBookingInsert(r)

Spec == Init /\ [][NextBookings]_vars

SpecCreate == Init /\ [][NextCreate]_vars

SpecCatalog == InitFaults /\ [][NextCatalog]_vars

SpecList == Init /\ [][NextList]_vars

SpecProducts == InitFaults /\ [][NextProducts]_vars

SpecCounters == Init /\ [][NextCounters]_vars

SpecUsers == Init /\ [][NextUsers]_vars

SpecAdmins == Init /\ [][NextAdmins]_vars

SpecRetired == Init /\ [][NextRetired]_vars

(***************************************************************************)
(* The error taxonomy of the specification, read off a response.           *)
(***************************************************************************)
ErrorOf(resp) ==
    IF resp.status \in {200, 201} THEN "none"
    ELSE IF resp.status = 403 THEN "AuthorizationError"
    ELSE IF resp.status = 404 THEN "NotFoundError"
    ELSE IF resp.status = 400 /\ resp.message = "Please provide all required fields"
    THEN "ValidationError"
    ELSE IF resp.status = 400 /\ resp.message \in
              { "Product is not available for booking",
                "Booking is already cancelled",
                "Cannot cancel a completed booking",
                "Booking is already marked as completed",
                "Cannot complete a cancelled booking" }
    THEN "ConflictError"
    ELSE IF resp.status = 400 THEN "ValidationError"
    ELSE "InternalError"

Terminal(status) == status \in {"cancelled", "completed"}

Stored == 1..Len(bookings)

(***************************************************************************)
(* The booking state machine.                                              *)
(***************************************************************************)
\* C1: the stored status of a booking changes only from confirmed to
\* cancelled or from confirmed to completed; once it is cancelled or
\* completed no step changes it, however cancel and complete requests
\* interleave.
C1_TerminalStatusIsFinal ==
    [][\A i \in Stored :
          /\ bookings'[i].status # bookings[i].status => bookings[i].status = "confirmed"
          /\ Terminal(bookings[i].status) => bookings'[i].status = bookings[i].status]_vars

\* C2: in every stored state cancelledAt is set exactly when the status is
\* cancelled and completedAt exactly when it is completed.
C2_TimestampsMatchStatus ==
    \A i \in Stored :
        /\ bookings[i].cancelledAt # None <=> bookings[i].status = "cancelled"
        /\ bookings[i].completedAt # None <=> bookings[i].status = "completed"

(***************************************************************************)
(* Coupon codes.                                                           *)
(***************************************************************************)
\* C3: no two stored bookings hold the same couponCode, and no step changes
\* a booking that is already stored (a create that generates a code in use
\* stores nothing and overwrites nothing).
C3_CouponCodesUnique ==
    [][/\ \A i, j \in 1..Len(bookings') :
             i # j => bookings'[i].couponCode # bookings'[j].couponCode
       /\ \A i \in Stored : bookings'[i] = bookings[i]]_vars

\* Two creates generated the same code: one is stored, the other has just
\* been refused by the unique index.
C3_Witness ==
    /\ out # None
    /\ out[1].kind = "createBooking"
    /\ out[1].resp.error = "E11000"
    /\ Len(bookings) = 1

(***************************************************************************)
(* Authorization.                                                          *)
(***************************************************************************)
\* The stored bookings a request addresses, by id or by coupon code.
Addressed(o) ==
    IF o.kind \in {"getBooking", "cancel", "complete"}
    THEN {o.id} \cap Stored
    ELSE IF o.kind = "getByCoupon"
    THEN { i \in Stored : toUpperCase(bookings[i].couponCode) = toUpperCase(o.coupon) }
    ELSE {}

\* A request the policy forbids: a non-admin completing any booking, or a
\* non-admin reading or cancelling a booking of another user.
Forbidden(o) ==
    /\ Role(o.user) = "user"
    /\ \/ o.kind = "complete"
       \/ /\ o.kind \in {"getBooking", "getByCoupon", "cancel"}
          /\ \E i \in Addressed(o) : bookings[i].userId # o.user

\* C4: a forbidden request is answered with AuthorizationError by a step
\* that leaves every booking as it is, and such a request never gets as far
\* as a write (it is never in flight), whatever the status of the booking.
C4_ForbiddenRequestsChangeNothing ==
    [][/\ (out' # None /\ Forbidden(out'[1])) =>
             /\ ErrorOf(out'[1].resp) = "AuthorizationError"
             /\ bookings' = bookings
       /\ \A r \in Reqs :
             (req[r].pc = "idle" /\ req'[r].pc # "idle") => ~Forbidden(req'[r])]_vars

\* A user who is neither admin nor owner has just been refused the cancel
\* of a completed booking.
C4_Witness ==
    /\ out # None
    /\ out[1].kind = "cancel"
    /\ Forbidden(out[1])
    /\ out[1].resp.status = 403
    /\ bookings[out[1].id].status = "completed"

(***************************************************************************)
(* Transitions out of a terminal state.                                    *)
(***************************************************************************)
\* The requester may cancel (admin or owner), respectively complete (admin).
Permitted(o, i) ==
    IF o.kind = "complete"
    THEN Role(o.user) = "admin"
    ELSE Role(o.user) = "admin" \/ bookings[i].userId = o.user

\* C6: a permitted cancel or complete request that finds its booking
\* cancelled or completed is answered with ConflictError by a step that
\* leaves the booking as it is, and never goes on to a write.
C6_TerminalBookingsRejectTransitions ==
    [][\A i \in Stored : Terminal(bookings[i].status) =>
          /\ ( /\ out' # None
               /\ out'[1].kind \in {"cancel", "complete"}
               /\ out'[1].at = "idle"
               /\ out'[1].id = i
               /\ Permitted(out'[1], i) ) =>
                   /\ ErrorOf(out'[1].resp) = "ConflictError"
                   /\ bookings' = bookings
          /\ \A r \in Reqs :
                ( /\ req[r].pc = "idle"
                  /\ req'[r].pc # "idle"
                  /\ req'[r].kind \in {"cancel", "complete"} ) => req'[r].id # i]_vars

\* The owner has just been refused the cancel of a completed booking.
C6_Witness ==
    /\ out # None
    /\ out[1].kind = "cancel"
    /\ Role(out[1].user) = "user"
    /\ out[1].resp.message = "Cannot cancel a completed booking"
    /\ bookings[out[1].id].status = "completed"
    /\ bookings[out[1].id].userId = out[1].user

(***************************************************************************)
(* Booking creation.                                                       *)
(***************************************************************************)
\* The body names a stored product whose availability is not Available.
NamesUnavailableProduct(body) ==
    /\ body.productId.t = "number"
    /\ body.productId.n \in 1..Len(products)
    /\ products[body.productId.n].availability # "Available"

\* The body names a stored product whose availability is Available.
NamesAvailableProduct(body) ==
    /\ body.productId.t = "number"
    /\ body.productId.n \in 1..Len(products)
    /\ products[body.productId.n].availability = "Available"

\* The six fields of the route's presence check are all given.
RequiredFieldsGiven(body) ==
    \A f \in {"productId", "customerName", "customerPhone", "customerAddress",
              "quantity", "bookingDate"} : ~Falsy(body[f])

\* C5 as stated: every create request that names an existing product which
\* is not Available is answered with ConflictError and stores nothing.
C5_UnavailableProductIsConflict ==
    [][/\ ( /\ out' # None
            /\ out'[1].kind = "createBooking"
            /\ out'[1].at = "idle"
            /\ NamesUnavailableProduct(out'[1].body) ) =>
                /\ ErrorOf(out'[1].resp) = "ConflictError"
                /\ bookings' = bookings
       /\ \A r \in Reqs :
             (req[r].pc = "idle" /\ req'[r].pc = "create_insert") =>
                 ~NamesUnavailableProduct(req'[r].body)]_vars

\* C5 amended: a create request that gives the six required fields and names
\* an existing product which is not Available is answered with ConflictError
\* and stores nothing; it never reaches Booking.create.
C5_UnavailableProductIsConflict_Amended ==
    [][/\ ( /\ out' # None
            /\ out'[1].kind = "createBooking"
            /\ out'[1].at = "idle"
            /\ RequiredFieldsGiven(out'[1].body)
            /\ NamesUnavailableProduct(out'[1].body) ) =>
                /\ ErrorOf(out'[1].resp) = "ConflictError"
                /\ bookings' = bookings
       /\ \A r \in Reqs :
             (req[r].pc = "idle" /\ req'[r].pc = "create_insert") =>
                 ~NamesUnavailableProduct(req'[r].body)]_vars

\* A well-formed request for an Out of Stock product has just been refused.
C5_Witness ==
    /\ out # None
    /\ out[1].kind = "createBooking"
    /\ RequiredFieldsGiven(out[1].body)
    /\ NamesUnavailableProduct(out[1].body)
    /\ products[out[1].body.productId.n].availability = "Out of Stock"
    /\ out[1].resp.message = "Product is not available for booking"

\* C7: the booking a create stores carries the name, an image and the
\* category of the product it is for, as the store holds them.
C7_SnapshotIsTheProduct ==
    [][Len(bookings') > Len(bookings) =>
          LET b == bookings'[Len(bookings')]
              p == products[b.productId]
          IN  /\ b.productName = JsStr(p.name)
              /\ b.productCategory = JsStr(p.category)
              /\ \E k \in 1..Len(p.images) : b.productImage = JsStr(p.images[k])]_vars

\* A field the booking record requires is absent or empty (a customer field
\* also when it is only whitespace), or the quantity is below 1.
RequiredFieldLacking(body) ==
    \/ \E f \in {"productId", "quantity", "bookingDate"} : body[f].t = "undefined"
    \/ \E f \in {"customerName", "customerPhone", "customerAddress"} :
          \/ body[f].t = "undefined"
          \/ body[f].t = "string" /\ Trim(body[f].s) = <<>>
    \/ body.quantity.t = "number" /\ body.quantity.n < 1

\* C8, in the case where no other error competes (the product named exists
\* and is Available, or no product is named): a create request lacking a
\* required field is answered with ValidationError and stores nothing.
C8_LackingFieldIsValidationError ==
    [][( /\ out' # None
         /\ out'[1].kind = "createBooking"
         /\ RequiredFieldLacking(out'[1].body)
         /\ \/ out'[1].body.productId.t = "undefined"
            \/ NamesAvailableProduct(out'[1].body) ) =>
             /\ ErrorOf(out'[1].resp) = "ValidationError"
             /\ bookings' = bookings]_vars

\* C9: a create request is not failed by the uniqueness violation of its
\* insert: when it ends on one (its retries used up) it ends with
\* ConflictError.  The handler makes one insert, so an answer that carries
\* the duplicate-key error is the failure of a single collision.
C9_CollisionIsRetried ==
    (out # None /\ out[1].kind = "createBooking" /\ out[1].resp.error = "E11000") =>
        ErrorOf(out[1].resp) = "ConflictError"

(***************************************************************************)
(* The public product fetch.                                               *)
(***************************************************************************)
\* C10: a fetch that found its product active answers with the product,
\* whether or not the increment of the view counter succeeds.
C10_FetchSurvivesIncrementFailure ==
    (out # None /\ out[1].kind = "getProduct" /\ out[1].at = "product_inc") =>
        /\ out[1].resp.status = 200
        /\ out[1].resp.data # None

(***************************************************************************)
(* The bookings list.                                                      *)
(***************************************************************************)
\* The stored bookings a list shows, as a set.
Listed(list) == { list[k] : k \in 1..Len(list) }

\* C11: the list an admin gets holds every stored booking, the list anyone
\* else gets holds exactly the stored bookings whose userId is the
\* requester, each once, and no booking of a list comes before one with a
\* later orderDate.
C11_ListShowsOwnBookingsNewestFirst ==
    (out # None /\ out[1].kind = "listBookings" /\ out[1].resp.status = 200) =>
        LET list == out[1].resp.data[1]
            mine == IF Role(out[1].user) = "admin"
                    THEN { bookings[i] : i \in Stored }
                    ELSE { bookings[i] : i \in { j \in Stored :
                                                   bookings[j].userId = out[1].user } }
        IN  /\ Listed(list) = mine
            /\ Len(list) = Cardinality(mine)
            /\ \A k \in 1..(Len(list) - 1) : list[k].orderDate >= list[k + 1].orderDate

\* A regular user has just been listed their one booking while the admin
\* holds a later one.
C11_Witness ==
    /\ out # None
    /\ out[1].kind = "listBookings"
    /\ out[1].user = "u1"
    /\ Len(out[1].resp.data[1]) = 1
    /\ Len(bookings) = 2
    /\ \E i \in Stored : bookings[i].userId = "adm" /\ bookings[i].orderDate > StartTime

(***************************************************************************)
(* Lookup by coupon code.                                                  *)
(***************************************************************************)
\* C12: the answer to a lookup is the answer the same requester gets for
\* the code written in lower case and for the code written in upper case:
\* the same booking or the same error.
C12_LookupIgnoresCase ==
    (out # None /\ out[1].kind = "getByCoupon" /\ out[1].resp.status # 500) =>
        /\ out[1].resp = CouponLookup(out[1].user, toLowerCase(out[1].coupon))
        /\ out[1].resp = CouponLookup(out[1].user, toUpperCase(out[1].coupon))

\* The owner has just been shown their booking for its code in lower case.
C12_Witness ==
    /\ out # None
    /\ out[1].kind = "getByCoupon"
    /\ out[1].resp.status = 200
    /\ out[1].coupon # toUpperCase(out[1].coupon)
    /\ out[1].resp.data[1].userId = out[1].user
    /\ out[1].resp.data[1].couponCode = toUpperCase(out[1].coupon)

(***************************************************************************)
(* The effect of a cancel.                                                 *)
(***************************************************************************)
\* The reason a cancel is to store: the caller's when one is given, else
\* the default of the caller's role.
ExpectedReason(o) ==
    IF o.body.reason.t = "string" /\ o.body.reason.s # <<>>
    THEN o.body.reason.s
    ELSE IF Role(o.user) = "admin"
    THEN <<"Cancelled by Admin">>
    ELSE <<"Cancelled by customer">>

\* C13: when a cancel is answered with success, the stored booking is
\* cancelled, its cancelledAt is set and its cancellationReason is the
\* caller's reason or the default of the caller's role.
C13_CancelStoresStatusAndReason ==
    (out # None /\ out[1].kind = "cancel" /\ out[1].resp.status = 200) =>
        LET b == bookings[out[1].id]
        IN  /\ b.status = "cancelled"
            /\ b.cancelledAt # None
            /\ b.cancellationReason = Some(ExpectedReason(out[1]))

(***************************************************************************)
(* Timestamps and the atomicity of a transition.                           *)
(***************************************************************************)
\* C16: once cancelledAt (completedAt) of a booking is set no step changes
\* it or sets it again, and the write of a transition request reaches only
\* a booking no transition has written yet (so at most one succeeds).
C16_TimestampsSetOnce ==
    [][\A i \in Stored :
          /\ bookings[i].cancelledAt # None =>
                bookings'[i].cancelledAt = bookings[i].cancelledAt
          /\ bookings[i].completedAt # None =>
                bookings'[i].completedAt = bookings[i].completedAt
          /\ \A r \in Reqs :
                ( /\ req[r].pc \in {"cancel_status", "complete_status"}
                  /\ req'[r].pc # req[r].pc
                  /\ req[r].id = i
                  /\ bookings'[i] # bookings[i] ) =>
                      /\ bookings[i].cancelledAt = None
                      /\ bookings[i].completedAt = None]_vars

\* C18: a booking is never stored as cancelled without a cancellationReason:
\* no read is answered with such a booking, and none is left behind when
\* no cancel of the booking is in flight.
C18_CancelIsOneUpdate ==
    /\ \A i \in Stored :
          (bookings[i].status = "cancelled" /\ bookings[i].cancellationReason = None) =>
              \E r \in Reqs : req[r].kind = "cancel" /\ req[r].id = i
    /\ ( /\ out # None
         /\ out[1].kind \in {"getBooking", "getByCoupon"}
         /\ out[1].resp.status = 200 ) =>
             ( out[1].resp.data[1].status = "cancelled" =>
                   out[1].resp.data[1].cancellationReason # None )

(***************************************************************************)
(* Booking creation and the catalogue.                                     *)
(***************************************************************************)
\* C17: no step of a create-booking request, whether it ends in success or
\* in an error, changes a product: availability, stock, views, likes and
\* isActive of every product are the same before and after.
C17_CreateLeavesProductsUnchanged ==
    [][( \/ out' # None /\ out'[1].kind = "createBooking"
         \/ \E r \in Reqs : req[r].pc = "idle" /\ req'[r].kind = "createBooking" ) =>
            /\ Len(products') = Len(products)
            /\ \A p \in 1..Len(products) :
                  \A f \in {"availability", "stock", "views", "likes", "isActive"} :
                      products'[p][f] = products[p][f]]_vars

\* A booking of one unit has just been stored and the product still has its
\* stock of one.
C17_Witness ==
    /\ out # None
    /\ out[1].kind = "createBooking"
    /\ out[1].resp.status = 201
    /\ out[1].body.quantity.n = 1
    /\ products[out[1].body.productId.n].stock = 1
    /\ Len(bookings) > 0

C15_CountersNeverDecrease ==
    [][\A p \in 1..Len(products) :
          /\ products'[p].views >= products[p].views
          /\ products'[p].likes >= products[p].likes]_vars

(***************************************************************************)
(* Image storage and the product record.                                   *)
(***************************************************************************)
\* Request r takes the step, at a pc of pcs.
StepsAt(r, pcs) == req[r].pc \in pcs /\ req'[r] # req[r]

Editing(p) ==
    { r \in Reqs : req[r].kind \in {"updateProduct", "deleteProduct"} /\ req[r].id = p }

\* C20: while no update or soft-delete of an active product is in flight,
\* every public id the product record holds is in image storage.
C20_StoredImagesExist ==
    \A p \in 1..Len(products) :
        (products[p].isActive /\ Editing(p) = {}) =>
            \A i \in 1..Len(products[p].imagePublicIds) :
                storage[products[p].imagePublicIds[i]] = "stored"

(***************************************************************************)
(* Bookings of a soft-deleted product.                                     *)
(***************************************************************************)
\* C21: a soft-delete leaves the availability of the product as it is, and
\* a create request (all fields given) is refused at the product exactly
\* when the product does not exist or is not Available, whatever its
\* isActive; a request that passes stores a confirmed booking for the
\* product, unless the unique index refuses its coupon code, which a stored
\* booking then holds.
C21_BookingIgnoresIsActive ==
    [][/\ \A r \in Reqs : StepsAt(r, {"remove_delete", "remove_save"}) =>
             \A p \in 1..Len(products) :
                 products'[p].availability = products[p].availability
       /\ ( /\ out' # None
            /\ out'[1].kind = "createBooking"
            /\ out'[1].at = "idle"
            /\ RequiredFieldsGiven(out'[1].body) ) =>
                ~NamesAvailableProduct(out'[1].body)
       /\ \A r \in Reqs :
             (req[r].pc = "idle" /\ req'[r].pc = "create_insert") =>
                 NamesAvailableProduct(req'[r].body)
       /\ ( /\ out' # None
            /\ out'[1].kind = "createBooking"
            /\ out'[1].at = "create_insert" ) =>
                \/ /\ out'[1].resp.status = 201
                   /\ Len(bookings') = Len(bookings) + 1
                   /\ bookings'[Len(bookings')].status = "confirmed"
                   /\ bookings'[Len(bookings')].productId = out'[1].body.productId.n
                \/ /\ out'[1].resp.error = "E11000"
                   /\ \E i \in Stored : \E q \in Reqs :
                         /\ req[q].pc = "create_insert"
                         /\ req'[q].pc = "idle"
                         /\ bookings[i].couponCode = req[q].doc[1].couponCode]_vars

\* A create request has just found its product Available and soft-deleted
\* and goes on to the insert; nothing else is in flight.
C21_Witness ==
    /\ out = None
    /\ \E r \in Reqs :
          /\ req[r].pc = "create_insert"
          /\ ~products[req[r].body.productId.n].isActive
          /\ products[req[r].body.productId.n].availability = "Available"
          /\ \A o \in Reqs \ {r} : req[o].pc = "idle"

(***************************************************************************)
(* User accounts.                                                          *)
(***************************************************************************)
\* An account other than id holds the email or the phone the body asks for.
TakenByAnother(id, body) ==
    \E u \in Users \ {id} :
        \/ body.email.t = "string" /\ users[u].email = body.email.s
        \/ body.phone.t = "string" /\ users[u].phone = body.phone.s

\* C22: an update of an account that asks for an email or a phone another
\* account holds is answered 400 and leaves every account as it is, also
\* when it asks for both and only one of them is taken.
C22_TakenEmailOrPhoneIsRefused ==
    [][( /\ out' # None
         /\ out'[1].kind = "updateUser"
         /\ out'[1].id \in Users
         /\ TakenByAnother(out'[1].id, out'[1].body) ) =>
             /\ out'[1].resp.status = 400
             /\ users' = users]_vars

\* The requests of an admin on their own id that ask to deactivate the
\* account or to take the admin role from it.
SelfHarm(o) ==
    /\ o.user = o.id
    /\ \/ o.kind = "deleteUser"
       \/ /\ o.kind = "updateUser"
          /\ \/ o.body.role = JsStr(<<"user">>)
             \/ o.body.isActive = JsBool(FALSE)

\* C23: a request of an admin on their own id that asks to deactivate the
\* account or to give up the admin role is answered 400 and leaves the
\* account as it is.
C23_AdminCannotDisableSelf ==
    [][( /\ out' # None
         /\ out'[1].kind \in {"updateUser", "deleteUser"}
         /\ SelfHarm(out'[1]) ) =>
             /\ out'[1].resp.status = 400
             /\ users'[out'[1].id] = users[out'[1].id]]_vars

====
